---------------------------- MODULE Spec2Model ----------------------------
(***************************************************************************)
(* Sabor del Campo: the local (localStorage) authentication service, the   *)
(* local product service, the category service and the backend-backed      *)
(* product service of src/src/services/authService.js.                     *)
(*                                                                         *)
(* JavaScript values that may be absent are modelled as sequences of       *)
(* length 0 (null / undefined / key not in storage) or 1 (the value).      *)
(***************************************************************************)
EXTENDS Integers, Sequences, FiniteSets, TLC

VARIABLES
    localStorage,   \* window.localStorage: key -> <<>> (absent) or <<text>>
    location,       \* window.location.href
    pending,        \* AuthService.login calls waiting in their 500 ms delay
    products,       \* local ProductService: this.products
    editingId,      \* local ProductService: this.editingId
    now,            \* Date.now() as last read, in milliseconds since the start
    rng,            \* the values Math.random() has produced so far
    table,          \* backend: the rows of the products table
    nextId,         \* backend: the identifier the next inserted row gets
    cache,          \* backend ProductService: this.products
    remoteEditingId,\* backend ProductService: this.editingId
    calls,          \* backend requests in flight, each with its phase
    synced,         \* history: the last load succeeded and so did every call since
    last            \* the call completed last: operation, arguments, outcome

authVars == <<location, pending>>
localVars == <<products, editingId, now, rng>>
backVars == <<table, nextId, cache, remoteEditingId, calls, synced>>
vars == <<localStorage, location, pending, products, editingId, now, rng,
          table, nextId, cache, remoteEditingId, calls, synced, last>>

----------------------------------------------------------------------------
(* Bounds *)

\* login calls that may be waiting in the delay at the same time
MaxPending == 2
\* products the local collection may hold
MaxProducts == 3
\* milliseconds the clock may advance
MaxNow == 1
\* identifiers generateId may hand out
MaxIds == 2
\* rows the backend may ever insert
MaxRows == 2
\* most backend calls in flight at the same time, where calls overlap
MaxCalls == 2

----------------------------------------------------------------------------
(* Values *)

Absent == <<>>
Some(v) == <<v>>

StorageKeys == {"isLoggedIn", "currentUser", "sabor-del-campo-products"}

\* AuthService.users
users ==
    << [username |-> "admin",   password |-> "admin123", name |-> "Administrador"],
       [username |-> "usuario", password |-> "user123",  name |-> "Usuario Demo"] >>

\* the credentials a caller may type
Usernames == {"admin", "usuario", "invitado"}
Passwords == {"admin123", "user123", "wrong"}

\* what a caller may pass to requireAuth: nothing, or a target
RedirectArgs == {Absent, Some("/login"), Some("/acceso")}
\* the page the application is on when it starts
StartPage == "/admin"

----------------------------------------------------------------------------
(* localStorage *)

getItem(store, key) == store[key]
setItem(store, key, text) == [store EXCEPT ![key] = Some(text)]
removeItem(store, key) == [store EXCEPT ![key] = Absent]

----------------------------------------------------------------------------
(* JSON text: an object is written as the sequence of its key/value pairs  *)

JSONstringifyUser(u) == << <<"username", u.username>>, <<"name", u.name>> >>

JSONfield(text, key) ==
    LET i == CHOOSE j \in 1..Len(text) : text[j][1] = key IN text[i][2]

JSONparseUser(text) ==
    [username |-> JSONfield(text, "username"), name |-> JSONfield(text, "name")]

----------------------------------------------------------------------------
(* Array helpers *)

\* Array.prototype.findIndex, zero-based, -1 when no element satisfies P
findIndex(s, P(_)) ==
    IF \E i \in 1..Len(s) : P(s[i])
    THEN (CHOOSE i \in 1..Len(s) : P(s[i]) /\ \A j \in 1..(i-1) : ~P(s[j])) - 1
    ELSE -1

\* Array.prototype.find: <<>> (undefined) or <<the first element satisfying P>>
find(s, P(_)) ==
    LET i == findIndex(s, P) IN IF i = -1 THEN Absent ELSE Some(s[i + 1])

\* Array.prototype.filter
filter(s, P(_)) == SelectSeq(s, P)

----------------------------------------------------------------------------
(* AuthService (local variant) *)

\* a faulty variant: the lookup compares the username alone
findUser_UsernameOnly(username, password) ==
    find(users, LAMBDA u : u.username = username)

\* this.users.find(...): the account with these credentials, if any
findUser(username, password) ==
    find(users, LAMBDA u : u.username = username /\ u.password = password)

\* a faulty variant: the display name is lost, the username is stored in its place
storedUser_NameIsUsername(user) == [username |-> user.username, name |-> user.username]

\* the session record login writes under currentUser
storedUser(user) == [username |-> user.username, name |-> user.name]

\* a faulty variant: login writes the flag and forgets the user record
loginBody_FlagOnly(store, username, password) ==
    LET user == findUser(username, password)
    IN  IF user # Absent
        THEN [store |-> setItem(store, "isLoggedIn", "true"),
              ret |-> [success |-> TRUE,
                       user |-> Some([username |-> user[1].username,
                                      name |-> user[1].name]),
                       message |-> "Login exitoso"]]
        ELSE [store |-> store,
              ret |-> [success |-> FALSE,
                       user |-> Absent,
                       message |-> "Credenciales incorrectas"]]

\* the body of login after the delay: the storage it leaves and what it returns
loginBody(store, username, password) ==
    LET user == findUser(username, password)
    IN  IF user # Absent
        THEN [store |-> setItem(setItem(store, "isLoggedIn", "true"),
                                "currentUser",
                                JSONstringifyUser(storedUser(user[1]))),
              ret |-> [success |-> TRUE,
                       user |-> Some([username |-> user[1].username,
                                      name |-> user[1].name]),
                       message |-> "Login exitoso"]]
        ELSE [store |-> store,
              ret |-> [success |-> FALSE,
                       user |-> Absent,
                       message |-> "Credenciales incorrectas"]]

\* a faulty variant: logout clears the flag and leaves the user record
logoutBody_KeepsUser(store) == removeItem(store, "isLoggedIn")

\* logout(): the storage it leaves
logoutBody(store) == removeItem(removeItem(store, "isLoggedIn"), "currentUser")

isAuthenticated(store) == getItem(store, "isLoggedIn") = Some("true")

getCurrentUser(store) ==
    LET userStr == getItem(store, "currentUser")
    IN  IF userStr # Absent THEN Some(JSONparseUser(userStr[1])) ELSE Absent

\* a faulty variant: the error is raised before the navigation, which then never runs
requireAuthEffects_ThrowFirst(store, arg) ==
    IF ~isAuthenticated(store)
    THEN << [kind |-> "throw", message |-> "No autorizado"] >>
    ELSE << >>

\* requireAuth(redirectUrl = '/login'): its effects in the order the code
\* performs them; arg is <<>> when the caller passes no target
requireAuthEffects(store, arg) ==
    LET redirectUrl == IF arg = Absent THEN "/login" ELSE arg[1]
    IN  IF ~isAuthenticated(store)
        THEN << [kind |-> "navigate", to |-> redirectUrl],
                [kind |-> "throw", message |-> "No autorizado"] >>
        ELSE << >>

\* the page a sequence of effects leaves the browser on
RECURSIVE navigated(_, _)
navigated(href, effects) ==
    IF effects = <<>> THEN href
    ELSE navigated(IF Head(effects).kind = "navigate" THEN Head(effects).to ELSE href,
                   Tail(effects))

\* login(username, password) up to its await: the call enters the delay
LoginCall(username, password) ==
    /\ Cardinality(pending) < MaxPending
    /\ pending' = pending \cup {[username |-> username, password |-> password]}
    /\ UNCHANGED <<localStorage, location, last, localVars, backVars>>

\* a login call resumes after the delay and runs to its return
LoginResume(call) ==
    LET out == loginBody(localStorage, call.username, call.password)
    IN  /\ pending' = pending \ {call}
        /\ localStorage' = out.store
        /\ last' = [op |-> "login", args |-> <<call.username, call.password>>,
                    ret |-> out.ret, effects |-> <<>>, before |-> localStorage, href |-> location]
        /\ UNCHANGED <<location, localVars, backVars>>

Logout ==
    /\ localStorage' = logoutBody(localStorage)
    /\ last' = [op |-> "logout", args |-> <<>>, ret |-> Absent,
                effects |-> <<>>, before |-> localStorage, href |-> location]
    /\ UNCHANGED <<location, pending, localVars, backVars>>

RequireAuth(arg) ==
    LET effects == requireAuthEffects(localStorage, arg)
    IN  /\ location' = navigated(location, effects)
        /\ last' = [op |-> "requireAuth", args |-> arg, ret |-> Absent,
                    effects |-> effects, before |-> localStorage, href |-> location]
        /\ UNCHANGED <<localStorage, pending, localVars, backVars>>

\* the application starts on empty storage; the product service is
\* constructed from it (constructor: products = loadProducts(), editingId = null)
Init ==
    /\ localStorage = [k \in StorageKeys |-> Absent]
    /\ location = StartPage
    /\ pending = {}
    /\ products = <<>>
    /\ editingId = Absent
    /\ now = 0
    /\ rng = 0
    /\ table = {}
    /\ nextId = 1
    /\ cache = <<>>
    /\ remoteEditingId = Absent
    /\ calls = {}
    /\ synced = FALSE
    /\ last = [op |-> "none", args |-> <<>>, ret |-> Absent,
               effects |-> <<>>, before |-> [k \in StorageKeys |-> Absent],
               href |-> StartPage]

AuthNext ==
    \/ \E u \in Usernames, p \in Passwords : LoginCall(u, p)
    \/ \E call \in pending : LoginResume(call)
    \/ Logout
    \/ \E arg \in RedirectArgs : RequireAuth(arg)

SpecAuth == Init /\ [][AuthNext]_vars

----------------------------------------------------------------------------
(* Claims about the local authentication service, checked under SpecAuth *)

\* the credential table as the specification states it
CredentialTable ==
    { [username |-> "admin",   password |-> "admin123", name |-> "Administrador"],
      [username |-> "usuario", password |-> "user123",  name |-> "Usuario Demo"] }

InTable(username, password) ==
    \E c \in CredentialTable : c.username = username /\ c.password = password

AccountOf(username, password) ==
    LET c == CHOOSE c \in CredentialTable : c.username = username /\ c.password = password
    IN  [username |-> c.username, name |-> c.name]

\* C1: in every state reachable by login and logout calls from empty storage,
\* the key isLoggedIn is present if and only if the key currentUser is present.
C1_FlagIffUser ==
    (getItem(localStorage, "isLoggedIn") # Absent)
        <=> (getItem(localStorage, "currentUser") # Absent)

\* a session written by login to storage that held none
C1_Witness ==
    /\ last.op = "login"
    /\ last.ret.success
    /\ getItem(localStorage, "isLoggedIn") # Absent
    /\ getItem(localStorage, "currentUser") # Absent
    /\ getItem(last.before, "isLoggedIn") = Absent

\* C2: a login with a pair of the credential table returns success, the
\* account's {username, name} and "Login exitoso"; isLoggedIn is "true",
\* currentUser holds the same {username, name}; isAuthenticated() is then true
\* and getCurrentUser() returns that user.
C2_LoginSuccess ==
    (last.op = "login" /\ InTable(last.args[1], last.args[2])) =>
        LET account == AccountOf(last.args[1], last.args[2])
        IN  /\ last.ret.success = TRUE
            /\ last.ret.user = Some(account)
            /\ last.ret.message = "Login exitoso"
            /\ getItem(localStorage, "isLoggedIn") = Some("true")
            /\ getItem(localStorage, "currentUser") # Absent
            /\ JSONparseUser(getItem(localStorage, "currentUser")[1]) = account
            /\ isAuthenticated(localStorage)
            /\ getCurrentUser(localStorage) = Some(account)

\* the second account logs in over the session of the first
C2_Witness ==
    /\ last.op = "login"
    /\ last.args = <<"usuario", "user123">>
    /\ last.ret.success
    /\ getCurrentUser(last.before) = Some([username |-> "admin", name |-> "Administrador"])
    /\ getCurrentUser(localStorage) = Some([username |-> "usuario", name |-> "Usuario Demo"])

\* C3: a login with a pair that matches no entry of the table returns success
\* false with "Credenciales incorrectas" and leaves every storage key as it was.
C3_LoginFailure ==
    (last.op = "login" /\ ~InTable(last.args[1], last.args[2])) =>
        /\ last.ret.success = FALSE
        /\ last.ret.user = Absent
        /\ last.ret.message = "Credenciales incorrectas"
        /\ localStorage = last.before

\* a right username with a wrong password, while a session exists
C3_Witness ==
    /\ last.op = "login"
    /\ last.args = <<"admin", "wrong">>
    /\ ~last.ret.success
    /\ isAuthenticated(last.before)
    /\ isAuthenticated(localStorage)

\* C4: logout, called with or without a session, leaves isLoggedIn and
\* currentUser absent and raises nothing; a further logout changes nothing;
\* isAuthenticated() is then false and getCurrentUser() absent.
C4_LogoutIdempotent ==
    last.op = "logout" =>
        /\ getItem(localStorage, "isLoggedIn") = Absent
        /\ getItem(localStorage, "currentUser") = Absent
        /\ last.effects = <<>>
        /\ logoutBody(localStorage) = localStorage
        /\ ~isAuthenticated(localStorage)
        /\ getCurrentUser(localStorage) = Absent
        /\ getItem(localStorage, "sabor-del-campo-products")
               = getItem(last.before, "sabor-del-campo-products")

\* logout called a second time, no session being left
C4_Witness ==
    /\ last.op = "logout"
    /\ getItem(last.before, "isLoggedIn") = Absent
    /\ getItem(last.before, "currentUser") = Absent
    /\ pending # {}

\* C5: requireAuth called unauthenticated first sets the navigation target to
\* its argument ("/login" when none is given) and then raises the unauthorized
\* error; called authenticated it neither navigates nor raises.
C5_RequireAuth ==
    last.op = "requireAuth" =>
        LET target == IF last.args = Absent THEN "/login" ELSE last.args[1]
        IN  IF isAuthenticated(last.before)
            THEN last.effects = <<>> /\ location = last.href
            ELSE /\ Len(last.effects) = 2
                 /\ last.effects[1] = [kind |-> "navigate", to |-> target]
                 /\ last.effects[2].kind = "throw"
                 /\ last.effects[2].message = "No autorizado"
                 /\ location = target
                 /\ localStorage = last.before

\* requireAuth() without a target, unauthenticated, from another page
C5_Witness ==
    /\ last.op = "requireAuth"
    /\ last.args = Absent
    /\ ~isAuthenticated(last.before)
    /\ last.href # "/login"
    /\ location = "/login"

----------------------------------------------------------------------------
(* ProductService (local variant): data *)

ProductsKey == "sabor-del-campo-products"

\* the product forms a caller may submit (description is optional)
ProductData ==
    { [name |-> "Tomate", category |-> "Verduras", cost |-> 2500, price |-> 4000,
       description |-> Some("fresco")],
      [name |-> "Queso", category |-> "Lacteos", cost |-> 8000, price |-> 12000,
       description |-> Absent] }

\* initializeSampleData: sampleProducts
sampleProducts ==
    << [id |-> "sample1", name |-> "Tomate Cherry", category |-> "Verduras",
        cost |-> 2500, price |-> 4000,
        description |-> Some("Tomates cherry frescos, ideales para ensaladas")],
       [id |-> "sample2", name |-> "Aguacate Hass", category |-> "Frutas",
        cost |-> 1800, price |-> 3000,
        description |-> Some("Aguacates maduros de excelente calidad")],
       [id |-> "sample3", name |-> "Queso Campesino", category |-> "Lacteos",
        cost |-> 8000, price |-> 12000,
        description |-> Some("Queso fresco artesanal de la region")] >>

Digits36 == << "0", "1", "2", "3", "4", "5", "6", "7", "8", "9", "a", "b", "c" >>

\* Date.now().toString(36): eight base-36 digits, the last ones counting the
\* milliseconds t since the application started
DateNowString(t) == "mhk2v9q" \o Digits36[t + 1]

\* Math.random().toString(36).substr(2) of the r-th value the generator
\* produces: the generator does not repeat a value within the model's horizon
RandomString(r) == "f8z" \o Digits36[r + 1] \o "x1"

\* a faulty variant: the identifier is the timestamp alone
generateId_TimeOnly(t, r) == DateNowString(t)

\* generateId()
generateId(t, r) == DateNowString(t) \o RandomString(r)

\* the identifiers a caller may pass: those of the collection, the one the
\* last call was given, and one no product ever has
IdArgs ==
    { products[i].id : i \in 1..Len(products) }
        \cup (IF last.op \in {"updateProduct", "deleteProduct"}
              THEN {last.args[1]} ELSE {})
        \cup { "desconocido" }

----------------------------------------------------------------------------
(* JSON text of the product array: one object per product, an object being *)
(* the sequence of its key/value pairs; a key whose value is undefined is  *)
(* not written                                                             *)

JSONstringifyProduct(p) ==
    << <<"name", p.name>>, <<"category", p.category>>,
       <<"cost", p.cost>>, <<"price", p.price>> >>
    \o (IF p.description # Absent THEN << <<"description", p.description[1]>> >>
        ELSE << >>)
    \o << <<"id", p.id>> >>

RECURSIVE JSONstringifyProducts(_)
JSONstringifyProducts(ps) ==
    IF ps = << >> THEN << >>
    ELSE << JSONstringifyProduct(Head(ps)) >> \o JSONstringifyProducts(Tail(ps))

JSONhas(text, key) == \E j \in 1..Len(text) : text[j][1] = key

JSONparseProduct(text) ==
    [id |-> JSONfield(text, "id"),
     name |-> JSONfield(text, "name"),
     category |-> JSONfield(text, "category"),
     cost |-> JSONfield(text, "cost"),
     price |-> JSONfield(text, "price"),
     description |-> IF JSONhas(text, "description")
                     THEN Some(JSONfield(text, "description")) ELSE Absent]

RECURSIVE JSONparseProducts(_)
JSONparseProducts(text) ==
    IF text = << >> THEN << >>
    ELSE << JSONparseProduct(Head(text)) >> \o JSONparseProducts(Tail(text))

----------------------------------------------------------------------------
(* ProductService (local variant): operations *)

loadProducts(store) ==
    LET stored == getItem(store, ProductsKey)
    IN  IF stored # Absent THEN JSONparseProducts(stored[1]) ELSE << >>

saveProducts(store, ps) == setItem(store, ProductsKey, JSONstringifyProducts(ps))

\* getAllProducts(): a new array of the same records
getAllProducts(ps) == [i \in 1..Len(ps) |-> ps[i]]

getProductById(ps, id) == find(ps, LAMBDA p : p.id = id)

\* { ...productData, id }
withId(productData, id) ==
    [id |-> id, name |-> productData.name, category |-> productData.category,
     cost |-> productData.cost, price |-> productData.price,
     description |-> productData.description]

\* the fields of a record other than its identifier
dataOf(p) ==
    [name |-> p.name, category |-> p.category, cost |-> p.cost, price |-> p.price,
     description |-> p.description]

\* addProduct(productData) with the identifier generateId() returned: the
\* collection it leaves, whether it saves, what it returns
addProductBody(ps, productData, id) ==
    LET newProduct == withId(productData, id)
    IN  [products |-> Append(ps, newProduct), save |-> TRUE, ret |-> newProduct]

\* a faulty variant: the record is replaced in memory and not saved
updateProductBody_NoSave(ps, id, productData) ==
    LET index == findIndex(ps, LAMBDA p : p.id = id)
    IN  IF index # -1
        THEN [products |-> [ps EXCEPT ![index + 1] = withId(productData, id)],
              save |-> FALSE, ret |-> Some(withId(productData, id))]
        ELSE [products |-> ps, save |-> FALSE, ret |-> Absent]

\* updateProduct(id, productData)
updateProductBody(ps, id, productData) ==
    LET index == findIndex(ps, LAMBDA p : p.id = id)
    IN  IF index # -1
        THEN [products |-> [ps EXCEPT ![index + 1] = withId(productData, id)],
              save |-> TRUE, ret |-> Some(withId(productData, id))]
        ELSE [products |-> ps, save |-> FALSE, ret |-> Absent]

\* deleteProduct(id)
deleteProductBody(ps, id) ==
    LET initialLength == Len(ps)
        kept == filter(ps, LAMBDA p : p.id # id)
    IN  IF Len(kept) < initialLength
        THEN [products |-> kept, save |-> TRUE, ret |-> TRUE]
        ELSE [products |-> kept, save |-> FALSE, ret |-> FALSE]

\* initializeSampleData()
initializeSampleDataBody(ps) ==
    IF Len(ps) = 0
    THEN [products |-> sampleProducts, save |-> TRUE]
    ELSE [products |-> ps, save |-> FALSE]

\* the storage after an operation that may have called saveProducts()
Saved(out) == IF out.save THEN saveProducts(localStorage, out.products) ELSE localStorage

\* new ProductService(): the page is loaded again
Construct ==
    /\ products' = loadProducts(localStorage)
    /\ editingId' = Absent
    /\ last' = [op |-> "construct", args |-> <<>>, ret |-> Absent]
    /\ UNCHANGED <<localStorage, now, rng, authVars, backVars>>

\* addProduct(productData), called when the clock reads t
AddProduct(productData, t) ==
    /\ Len(products) < MaxProducts
    /\ rng < MaxIds
    /\ t >= now
    /\ now' = t
    /\ LET out == addProductBody(products, productData, generateId(t, rng))
       IN  /\ products' = out.products
           /\ localStorage' = Saved(out)
           /\ last' = [op |-> "addProduct", args |-> <<productData>>, ret |-> out.ret]
    /\ rng' = rng + 1
    /\ UNCHANGED <<editingId, authVars, backVars>>

UpdateProduct(id, productData) ==
    /\ LET out == updateProductBody(products, id, productData)
       IN  /\ products' = out.products
           /\ localStorage' = Saved(out)
           /\ last' = [op |-> "updateProduct", args |-> <<id, productData>>,
                       ret |-> out.ret]
    /\ UNCHANGED <<editingId, now, rng, authVars, backVars>>

DeleteProduct(id) ==
    /\ LET out == deleteProductBody(products, id)
       IN  /\ products' = out.products
           /\ localStorage' = Saved(out)
           /\ last' = [op |-> "deleteProduct", args |-> <<id>>, ret |-> out.ret]
    /\ UNCHANGED <<editingId, now, rng, authVars, backVars>>

InitializeSampleData ==
    /\ LET out == initializeSampleDataBody(products)
       IN  /\ products' = out.products
           /\ localStorage' = Saved(out)
           /\ last' = [op |-> "initializeSampleData", args |-> <<>>, ret |-> Absent]
    /\ UNCHANGED <<editingId, now, rng, authVars, backVars>>

LocalNext ==
    \/ Construct
    \/ \E d \in ProductData, t \in 0..MaxNow : AddProduct(d, t)
    \/ \E id \in IdArgs, d \in ProductData : UpdateProduct(id, d)
    \/ \E id \in IdArgs : DeleteProduct(id)
    \/ InitializeSampleData

SpecLocal == Init /\ [][LocalNext]_vars

----------------------------------------------------------------------------
(* Backend (Supabase) and the services that use it: data *)

\* a JavaScript number (held as its decimal digits) and a JavaScript string,
\* told apart as === tells them
Num(n) == [t |-> "number", v |-> ToString(n)]
Str(x) == [t |-> "string", v |-> x]

\* a === b
strictEquals(a, b) == a.t = b.t /\ a.v = b.v

\* id.toString()
toString(id) == id.v

\* the rows of the backend's categories table
categoriesTable == << [id |-> 1, name |-> "Verduras"], [id |-> 2, name |-> "Lacteos"] >>

categoryName(category_id) ==
    LET i == CHOOSE j \in 1..Len(categoriesTable) : categoriesTable[j].id = category_id
    IN  categoriesTable[i].name

\* the product forms a caller may submit to the backend-backed service
RemoteData ==
    { [name |-> "Tomate", category |-> 1, cost |-> 2500, price |-> 4000,
       description |-> Some("fresco")],
      [name |-> "Queso", category |-> 2, cost |-> 8000, price |-> 12000,
       description |-> Some("")] }

\* the identifiers a caller may pass, each as a number and as its string form
RemoteIdArgs ==
    { Num(n) : n \in 1..MaxRows } \cup { Str(ToString(n)) : n \in 1..MaxRows }

\* productData.description || null
orNull(description) ==
    IF description = Absent \/ description = Some("") THEN Absent ELSE description

\* the column values addProduct and updateProduct send
payload(productData) ==
    [name |-> productData.name, category_id |-> productData.category,
     cost |-> productData.cost, price |-> productData.price,
     description |-> orNull(productData.description)]

\* a row of identifier id as select("*, category:categories(name)") returns it
row(id, columns) ==
    [id |-> id, name |-> columns.name, category_id |-> columns.category_id,
     cost |-> columns.cost, price |-> columns.price,
     description |-> columns.description,
     category |-> [name |-> categoryName(columns.category_id)]]

\* .eq("id", id): the rows whose identifier the filter value denotes
eqId(rows, id) == { r \in rows : toString(r.id) = toString(id) }

\* the orders in which a select without order clause may return the rows
Orders(rows) ==
    { o \in [1..Cardinality(rows) -> rows] :
        \A i, j \in 1..Cardinality(rows) : i # j => o[i] # o[j] }

----------------------------------------------------------------------------
(* CategoryService and ProductService (backend variant): what each call     *)
(* does when its response arrives. response = [error, data].               *)

\* CategoryService.loadCategories()
loadCategoriesDone(response) ==
    IF response.error
    THEN [ret |-> << >>, raised |-> Absent]
    ELSE [ret |-> response.data, raised |-> Absent]

\* a faulty variant: a failed load keeps the rows cached before
loadProductsDone_KeepsCache(ps, response) ==
    IF response.error
    THEN [products |-> ps, ret |-> << >>, raised |-> Absent]
    ELSE [products |-> response.data, ret |-> response.data, raised |-> Absent]

\* loadProducts()
loadProductsDone(ps, response) ==
    IF response.error
    THEN [products |-> << >>, ret |-> << >>, raised |-> Absent]
    ELSE [products |-> response.data, ret |-> response.data, raised |-> Absent]

\* a faulty variant: the new row is put at the end of the cache
remoteAddDone_Push(ps, response) ==
    IF response.error
    THEN [products |-> ps, ret |-> << >>, raised |-> Some("Error al agregar el producto")]
    ELSE [products |-> Append(ps, response.data[1]), ret |-> response.data,
          raised |-> Absent]

\* a faulty variant: the cache is rebuilt from the new row alone
remoteAddDone_Alone(ps, response) ==
    IF response.error
    THEN [products |-> ps, ret |-> << >>, raised |-> Some("Error al agregar el producto")]
    ELSE [products |-> <<response.data[1]>>, ret |-> response.data, raised |-> Absent]

\* addProduct(productData)
remoteAddDone(ps, response) ==
    IF response.error
    THEN [products |-> ps, ret |-> << >>, raised |-> Some("Error al agregar el producto")]
    ELSE [products |-> <<response.data[1]>> \o ps, ret |-> response.data,
          raised |-> Absent]

\* updateProduct(id, productData)
remoteUpdateDone(ps, id, response) ==
    IF response.error
    THEN [products |-> ps, ret |-> << >>,
          raised |-> Some("Error al actualizar el producto")]
    ELSE LET index == findIndex(ps, LAMBDA p : strictEquals(p.id, id))
         IN  [products |-> IF index # -1
                           THEN [ps EXCEPT ![index + 1] = response.data[1]]
                           ELSE ps,
              ret |-> response.data, raised |-> Absent]

\* a faulty variant: the entry is dropped from the cache before the error is looked at
remoteDeleteDone_Optimistic(ps, id, response) ==
    [products |-> filter(ps, LAMBDA p : toString(p.id) # toString(id)),
     ret |-> IF response.error THEN << >> ELSE <<TRUE>>,
     raised |-> IF response.error THEN Some("Error al eliminar el producto") ELSE Absent]

\* deleteProduct(id)
remoteDeleteDone(ps, id, response) ==
    IF response.error
    THEN [products |-> ps, ret |-> << >>,
          raised |-> Some("Error al eliminar el producto")]
    ELSE [products |-> filter(ps, LAMBDA p : toString(p.id) # toString(id)),
          ret |-> <<TRUE>>, raised |-> Absent]

\* the continuation of call c
done(ps, c) ==
    LET response == [error |-> c.error, data |-> c.data]
    IN  CASE c.kind = "loadCategories" ->
                 [products |-> ps] @@ loadCategoriesDone(response)
          [] c.kind = "loadProducts" -> loadProductsDone(ps, response)
          [] c.kind = "addProduct" -> remoteAddDone(ps, response)
          [] c.kind = "updateProduct" -> remoteUpdateDone(ps, c.args[1], response)
          [] c.kind = "deleteProduct" -> remoteDeleteDone(ps, c.args[1], response)

\* the calls a caller may make
RemoteCalls ==
    { [kind |-> k, args |-> << >>] : k \in {"loadCategories", "loadProducts"} }
        \cup { [kind |-> "addProduct", args |-> <<d>>] : d \in RemoteData }
        \cup { [kind |-> "updateProduct", args |-> <<id, d>>] :
                   id \in RemoteIdArgs, d \in RemoteData }
        \cup { [kind |-> "deleteProduct", args |-> <<id>>] : id \in RemoteIdArgs }

InFlight(request, phase, error, data) ==
    [kind |-> request.kind, args |-> request.args, phase |-> phase,
     error |-> error, data |-> data]

\* a service method runs up to its await: the request is sent
Request(request) ==
    /\ calls' = calls \cup {InFlight(request, "sent", FALSE, << >>)}
    /\ UNCHANGED <<table, nextId, cache, remoteEditingId, synced, last,
                   localStorage, authVars, localVars>>

Answer(c, error, data) ==
    calls' = (calls \ {c}) \cup {InFlight(c, "answered", error, data)}

\* the backend serves a select
RespondSelect(c) ==
    /\ c.phase = "sent"
    /\ \/ /\ c.kind = "loadCategories"
          /\ Answer(c, FALSE, categoriesTable)
       \/ /\ c.kind = "loadProducts"
          /\ \E o \in Orders(table) : Answer(c, FALSE, o)
    /\ UNCHANGED <<table, nextId, cache, remoteEditingId, synced, last,
                   localStorage, authVars, localVars>>

\* the backend serves an insert: the new row gets the next identifier
RespondInsert(c) ==
    /\ c.phase = "sent"
    /\ c.kind = "addProduct"
    /\ nextId <= MaxRows
    /\ LET new == row(Num(nextId), payload(c.args[1]))
       IN  /\ table' = table \cup {new}
           /\ Answer(c, FALSE, <<new>>)
    /\ nextId' = nextId + 1
    /\ UNCHANGED <<cache, remoteEditingId, synced, last,
                   localStorage, authVars, localVars>>

\* the backend serves an update: .single() reports an error unless exactly
\* one row comes back
RespondUpdate(c) ==
    /\ c.phase = "sent"
    /\ c.kind = "updateProduct"
    /\ LET matching == eqId(table, c.args[1])
       IN  \/ /\ matching = {}
              /\ Answer(c, TRUE, << >>)
              /\ UNCHANGED table
           \/ /\ matching # {}
              /\ LET old == CHOOSE r \in matching : TRUE
                     new == row(old.id, payload(c.args[2]))
                 IN  /\ table' = (table \ matching) \cup {new}
                     /\ Answer(c, FALSE, <<new>>)
    /\ UNCHANGED <<nextId, cache, remoteEditingId, synced, last,
                   localStorage, authVars, localVars>>

\* the backend serves a delete
RespondDelete(c) ==
    /\ c.phase = "sent"
    /\ c.kind = "deleteProduct"
    /\ table' = table \ eqId(table, c.args[1])
    /\ Answer(c, FALSE, << >>)
    /\ UNCHANGED <<nextId, cache, remoteEditingId, synced, last,
                   localStorage, authVars, localVars>>

\* the request fails (network, permissions): nothing is applied
RespondError(c) ==
    /\ c.phase = "sent"
    /\ Answer(c, TRUE, << >>)
    /\ UNCHANGED <<table, nextId, cache, remoteEditingId, synced, last,
                   localStorage, authVars, localVars>>

\* the response arrives and the method runs to its return or throw
Settle(c) ==
    /\ c.phase = "answered"
    /\ LET out == done(cache, c)
       IN  /\ cache' = out.products
           /\ last' = [op |-> c.kind, args |-> c.args, ret |-> out.ret,
                       raised |-> out.raised, error |-> c.error, had |-> Len(cache)]
    /\ synced' = CASE c.kind = "loadCategories" -> synced
                   [] c.kind = "loadProducts" -> ~c.error
                   [] OTHER -> synced /\ ~c.error
    /\ calls' = calls \ {c}
    /\ UNCHANGED <<table, nextId, remoteEditingId, localStorage, authVars, localVars>>

\* the caller awaits each call before it makes the next
RemoteNext ==
    \/ \E request \in RemoteCalls : calls = {} /\ Request(request)
    \/ \E c \in calls : RespondSelect(c)
    \/ \E c \in calls : RespondInsert(c)
    \/ \E c \in calls : RespondUpdate(c)
    \/ \E c \in calls : RespondDelete(c)
    \/ \E c \in calls : RespondError(c)
    \/ \E c \in calls : Settle(c)

SpecRemote == Init /\ [][RemoteNext]_vars

\* two adds in a row in each product service
OrderNext ==
    \/ \E d \in ProductData, t \in 0..MaxNow : AddProduct(d, t)
    \/ \E d \in RemoteData :
           calls = {} /\ Request([kind |-> "addProduct", args |-> <<d>>])
    \/ \E c \in calls : RespondInsert(c)
    \/ \E c \in calls : RespondError(c)
    \/ \E c \in calls : Settle(c)

SpecOrder == Init /\ [][OrderNext]_vars

----------------------------------------------------------------------------
(* Claims about the local product service, checked under SpecLocal *)

\* the position of the first record of identifier id in ps (0: none)
PositionOf(ps, id) == findIndex(ps, LAMBDA p : p.id = id) + 1

\* a step that is the call addProduct(data)
C6_AddStep ==
    LET data == last'.args[1] IN
    (last'.op = "addProduct" /\ AddProduct(data, now')) =>
        LET got == getProductById(products', last'.ret.id)
        IN  /\ got # Absent
            /\ got[1].id = last'.ret.id
            /\ dataOf(got[1]) = data

\* a step that is the call updateProduct(id, data2), id being in the collection
C6_UpdateStep ==
    LET id == last'.args[1]
        data2 == last'.args[2]
        k == PositionOf(products, id)
    IN  (last'.op = "updateProduct" /\ UpdateProduct(id, data2) /\ k # 0) =>
            /\ last'.ret # Absent
            /\ last'.ret[1].id = id
            /\ dataOf(last'.ret[1]) = data2
            /\ Len(products') = Len(products)
            /\ products'[k] = last'.ret[1]
            /\ \A j \in 1..Len(products) : j # k => products'[j] = products[j]
            /\ getProductById(products', id) = last'.ret

\* a step that is the call deleteProduct(id)
C6_DeleteStep ==
    LET id == last'.args[1] IN
    (last'.op = "deleteProduct" /\ DeleteProduct(id)) =>
        /\ last'.ret = (PositionOf(products, id) # 0)
        /\ getProductById(products', id) = Absent
        /\ (last.op = "deleteProduct" /\ last.args[1] = id) => last'.ret = FALSE

\* C6: after p = addProduct(data), getProductById(p.id) returns a record with
\* data's fields; updateProduct(p.id, data2) returns a record of identifier
\* p.id with data2's fields, at the same position; deleteProduct(p.id) then
\* returns true, a second deleteProduct(p.id) returns false, and
\* getProductById(p.id) is absent afterwards.
C6_RoundTrip == [][C6_AddStep /\ C6_UpdateStep /\ C6_DeleteStep]_vars

\* a generated identifier deleted, and deleted once more
C6_Witness ==
    /\ last.op = "deleteProduct"
    /\ last.ret = FALSE
    /\ \E t \in 0..MaxNow, r \in 0..(MaxIds - 1) : last.args[1] = generateId(t, r)
    /\ products # << >>

\* C7: after construction and after every completed addProduct, updateProduct,
\* deleteProduct or initializeSampleData call, matched or not, the array stored
\* under sabor-del-campo-products equals the in-memory collection, an absent
\* key counting as the empty collection.
C7_WriteThrough ==
    (IF getItem(localStorage, "sabor-del-campo-products") = Absent
     THEN << >>
     ELSE JSONparseProducts(getItem(localStorage, "sabor-del-campo-products")[1]))
        = products

\* an update that matched, in a collection holding a product without description
C7_Witness ==
    /\ last.op = "updateProduct"
    /\ last.ret # Absent
    /\ Len(products) >= 2
    /\ \E i \in 1..Len(products) : products[i].description = Absent
    /\ \E i \in 1..Len(products) : products[i].id = "sample2"

----------------------------------------------------------------------------
(* Claims about insertion order, checked under SpecOrder *)

\* the backend hands out identifiers in the order of the inserts
insertNumber(id) == CHOOSE n \in 1..(MaxRows + 1) : ToString(n) = id.v

\* the local identifiers carry the number of the draw of the generator
drawNumber(id) ==
    CHOOSE r \in 0..MaxIds : \E t \in 0..MaxNow : generateId(t, r) = id

\* C8: after add A, then add B once A's add has completed, getAllProducts() of
\* the backend-backed variant lists B before A (front insertion) and
\* getAllProducts() of the local variant lists A before B (appended).
C8_InsertionOrder ==
    /\ \A i, j \in 1..Len(cache) :
           i < j => insertNumber(cache[i].id) > insertNumber(cache[j].id)
    /\ \A i, j \in 1..Len(getAllProducts(products)) :
           i < j => drawNumber(getAllProducts(products)[i].id)
                        < drawNumber(getAllProducts(products)[j].id)

\* both services after two adds each
C8_Witness ==
    /\ calls = {}
    /\ Len(cache) = 2
    /\ cache[1].id = Num(2)
    /\ cache[2].id = Num(1)
    /\ Len(products) = 2
    /\ drawNumber(products[1].id) = 0
    /\ drawNumber(products[2].id) = 1

----------------------------------------------------------------------------
(* Claims about the backend-backed services, checked under SpecRemote *)

\* C9: when the backend query reports an error, loadCategories resolves to an
\* empty collection, loadProducts resolves to an empty collection and leaves
\* the cache empty whatever it held; neither raises.
C9_FailSoftLoad ==
    /\ (last.op = "loadCategories" /\ last.error) =>
           last.ret = << >> /\ last.raised = Absent
    /\ (last.op = "loadProducts" /\ last.error) =>
           last.ret = << >> /\ last.raised = Absent /\ cache = << >>

\* a failed load with rows in the cache
C9_Witness ==
    /\ last.op = "loadProducts"
    /\ last.error
    /\ last.had = 2
    /\ cache = << >>
    /\ table # {}

\* the rows the cache holds
cached == { cache[i] : i \in 1..Len(cache) }

\* C10: operations issued one at a time: after a successful loadProducts
\* followed by successful addProduct, updateProduct and deleteProduct calls the
\* cache holds exactly the rows of the backend products table.
C10_CacheMirrorsTable ==
    (synced /\ calls = {}) =>
        /\ cached = table
        /\ Len(cache) = Cardinality(table)

\* the message each write raises, as the specification states it
GenericMessage(kind) ==
    CASE kind = "addProduct" -> "Error al agregar el producto"
      [] kind = "updateProduct" -> "Error al actualizar el producto"
      [] kind = "deleteProduct" -> "Error al eliminar el producto"

\* a step in which a write the backend answered with an error runs to its end
C11_Step ==
    \A c \in calls :
        (/\ c.phase = "answered"
         /\ c.error
         /\ c.kind \in {"addProduct", "updateProduct", "deleteProduct"}
         /\ calls' = calls \ {c}
         /\ Settle(c)) =>
            /\ last'.raised = Some(GenericMessage(c.kind))
            /\ last'.ret = << >>
            /\ cache' = cache
            /\ remoteEditingId' = remoteEditingId

\* C11: when the backend reports an error for addProduct, updateProduct or
\* deleteProduct, the call raises a failure carrying only the generic message
\* of that operation, and the cache and the editing cursor are left as they were.
C11_WriteFailure == [][C11_Step]_vars

\* a delete that failed for a product the cache holds, one being under edit
C11_Witness ==
    /\ last.op = "deleteProduct"
    /\ remoteEditingId # Absent
    /\ last.error
    /\ last.raised = Some("Error al eliminar el producto")
    /\ \E i \in 1..Len(cache) : toString(cache[i].id) = toString(last.args[1])

----------------------------------------------------------------------------
(* Callers of getAllProducts(): [...this.products] builds a new array whose *)
(* entries are the very record objects the service holds.  A caller that    *)
(* changes the array changes only its own copy; a caller that assigns to a  *)
(* field of an entry assigns to the record held by the service.             *)

\* the changes a caller makes to the array itself
ArrayMutations == {"push", "pop", "reverse"}

reverse(s) == [i \in 1..Len(s) |-> s[Len(s) + 1 - i]]

mutateArray(got, how) ==
    CASE how = "push" -> Append(got, [id |-> "ajeno"])
      [] how = "pop" -> SubSeq(got, 1, Len(got) - 1)
      [] how = "reverse" -> reverse(got)

\* local variant: list = getAllProducts(); list.push(..) / list.pop() / list.reverse()
MutateResultArray(how) ==
    /\ products # << >>
    /\ last' = [op |-> "getAllProducts", args |-> <<how>>,
                ret |-> mutateArray(getAllProducts(products), how)]
    /\ UNCHANGED <<localStorage, authVars, localVars, backVars>>

\* local variant: list = getAllProducts(); list[i].price = 0
MutateResultRecord(i) ==
    /\ i \in 1..Len(products)
    /\ products' = [products EXCEPT ![i].price = 0]
    /\ last' = [op |-> "getAllProducts", args |-> <<"price", i>>,
                ret |-> [getAllProducts(products) EXCEPT ![i].price = 0]]
    /\ UNCHANGED <<localStorage, authVars, editingId, now, rng, backVars>>

\* backend variant: the same two callers
RemoteMutateResultArray(how) ==
    /\ cache # << >>
    /\ calls = {}
    /\ last' = [op |-> "getAllProducts", args |-> <<how>>,
                ret |-> mutateArray(getAllProducts(cache), how)]
    /\ UNCHANGED <<localStorage, authVars, localVars, backVars>>

RemoteMutateResultRecord(i) ==
    /\ i \in 1..Len(cache)
    /\ calls = {}
    /\ cache' = [cache EXCEPT ![i].price = 0]
    /\ last' = [op |-> "getAllProducts", args |-> <<"price", i>>,
                ret |-> [getAllProducts(cache) EXCEPT ![i].price = 0]]
    /\ UNCHANGED <<localStorage, authVars, localVars, table, nextId,
                   remoteEditingId, calls, synced>>

CopyNext ==
    \/ OrderNext
    \/ \E how \in ArrayMutations : MutateResultArray(how)
    \/ \E i \in 1..MaxProducts : MutateResultRecord(i)
    \/ \E how \in ArrayMutations : RemoteMutateResultArray(how)
    \/ \E i \in 1..MaxRows : RemoteMutateResultRecord(i)

SpecCopy == Init /\ [][CopyNext]_vars

\* a caller changed the result of getAllProducts(): what the service holds,
\* and what is persisted, is what it was
C12_Step ==
    last'.op = "getAllProducts" =>
        /\ getAllProducts(products') = getAllProducts(products)
        /\ getAllProducts(cache') = getAllProducts(cache)
        /\ \A i \in 1..Len(products) :
               getProductById(products', products[i].id)
                   = getProductById(products, products[i].id)
        /\ localStorage' = localStorage

\* C12: getAllProducts() returns a defensive copy in both variants: no change
\* a caller makes to the result (adding, removing or reordering entries, or
\* changing a field of a returned record) changes what later calls return or
\* what is persisted.
C12_DefensiveCopy == [][C12_Step]_vars

----------------------------------------------------------------------------
(* Text: a JavaScript string is read as the sequence of its characters by  *)
(* the operations that look inside it (trim, toLowerCase, includes)        *)

\* the characters of the strings that occur in the model
Chars ==
        ("" :> <<>>)
        @@ (" " :> <<" ">>)
        @@ ("  " :> <<" ", " ">>)
        @@ ("Tomate" :> <<"T", "o", "m", "a", "t", "e">>)
        @@ ("Queso" :> <<"Q", "u", "e", "s", "o">>)
        @@ ("Tomate Cherry" :> <<"T", "o", "m", "a", "t", "e", " ", "C", "h", "e", "r", "r", "y">>)
        @@ ("Aguacate Hass" :> <<"A", "g", "u", "a", "c", "a", "t", "e", " ", "H", "a", "s", "s">>)
        @@ ("Queso Campesino" :> <<"Q", "u", "e", "s", "o", " ", "C", "a", "m", "p", "e", "s", "i", "n", "o">>)
        @@ ("tom" :> <<"t", "o", "m">>)
        @@ ("QUESO" :> <<"Q", "U", "E", "S", "O">>)
        @@ ("e" :> <<"e">>)
        @@ ("cherry tomate" :> <<"c", "h", "e", "r", "r", "y", " ", "t", "o", "m", "a", "t", "e">>)
        @@ ("Verduras" :> <<"V", "e", "r", "d", "u", "r", "a", "s">>)
        @@ ("Lacteos" :> <<"L", "a", "c", "t", "e", "o", "s">>)
        @@ ("Frutas" :> <<"F", "r", "u", "t", "a", "s">>)

UpperCase == <<"A", "B", "C", "D", "E", "F", "G", "H", "I", "J", "K", "L", "M",
               "N", "O", "P", "Q", "R", "S", "T", "U", "V", "W", "X", "Y", "Z">>
LowerCase == <<"a", "b", "c", "d", "e", "f", "g", "h", "i", "j", "k", "l", "m",
               "n", "o", "p", "q", "r", "s", "t", "u", "v", "w", "x", "y", "z">>

WhiteSpace == {" "}

\* String.prototype.trim
RECURSIVE trim(_)
trim(cs) ==
    IF cs = << >> THEN cs
    ELSE IF Head(cs) \in WhiteSpace THEN trim(Tail(cs))
    ELSE IF cs[Len(cs)] \in WhiteSpace THEN trim(SubSeq(cs, 1, Len(cs) - 1))
    ELSE cs

\* String.prototype.toLowerCase
toLowerCase(cs) ==
    [i \in 1..Len(cs) |->
        IF \E k \in 1..Len(UpperCase) : UpperCase[k] = cs[i]
        THEN LowerCase[CHOOSE k \in 1..Len(UpperCase) : UpperCase[k] = cs[i]]
        ELSE cs[i]]

\* String.prototype.includes
includes(cs, part) ==
    \E k \in 0..(Len(cs) - Len(part)) : SubSeq(cs, k + 1, k + Len(part)) = part

----------------------------------------------------------------------------
(* validateProduct (the same code in both product services) *)

\* the form data validateProduct is given: name and category may be missing
\* (undefined) or empty, cost and price are numbers
ValidationData ==
    [name : {Absent, Some(""), Some("  "), Some("Tomate")},
     category : {Absent, Some(""), Some("Verduras")},
     cost : {-5, 0, 10, 20},
     price : {-5, 0, 10, 20}]

\* !x for an optional string: undefined and "" are falsy
falsyText(x) == x = Absent \/ x = Some("")

\* a faulty variant: a sale price equal to the cost is reported too
validateProduct_PriceNotAbove(productData) ==
    LET errors ==
            (IF falsyText(productData.name)
                \/ trim(Chars[productData.name[1]]) = << >>
             THEN <<"El nombre del producto es obligatorio">> ELSE << >>)
         \o (IF falsyText(productData.category)
             THEN <<"La categoria es obligatoria">> ELSE << >>)
         \o (IF productData.cost = 0 \/ productData.cost <= 0
             THEN <<"El precio de costo debe ser mayor a 0">> ELSE << >>)
         \o (IF productData.price = 0 \/ productData.price <= 0
             THEN <<"El precio de venta debe ser mayor a 0">> ELSE << >>)
         \o (IF productData.price <= productData.cost
             THEN <<"El precio de venta es menor al costo">> ELSE << >>)
    IN  [isValid |-> Len(errors) = 0, errors |-> errors]

\* validateProduct(productData); the messages are written without their accents
validateProduct(productData) ==
    LET errors ==
            (IF falsyText(productData.name)
                \/ trim(Chars[productData.name[1]]) = << >>
             THEN <<"El nombre del producto es obligatorio">> ELSE << >>)
         \o (IF falsyText(productData.category)
             THEN <<"La categoria es obligatoria">> ELSE << >>)
         \o (IF productData.cost = 0 \/ productData.cost <= 0
             THEN <<"El precio de costo debe ser mayor a 0">> ELSE << >>)
         \o (IF productData.price = 0 \/ productData.price <= 0
             THEN <<"El precio de venta debe ser mayor a 0">> ELSE << >>)
         \o (IF productData.price < productData.cost
             THEN <<"El precio de venta es menor al costo">> ELSE << >>)
    IN  [isValid |-> Len(errors) = 0, errors |-> errors]

\* a page validates the form data
ValidateProduct(productData) ==
    /\ last' = [op |-> "validateProduct", args |-> <<productData>>,
                ret |-> validateProduct(productData)]
    /\ UNCHANGED <<localStorage, authVars, localVars, backVars>>

ValidateNext ==
    \/ InitializeSampleData
    \/ \E productData \in ValidationData : ValidateProduct(productData)

SpecValidate == Init /\ [][ValidateNext]_vars

\* the five checks in their order: does the check fire on data d
Fires(k, d) ==
    CASE k = 1 -> d.name = Absent \/ trim(Chars[d.name[1]]) = << >>
      [] k = 2 -> d.category \in {Absent, Some("")}
      [] k = 3 -> d.cost <= 0
      [] k = 4 -> d.price <= 0
      [] k = 5 -> d.price < d.cost

ValidationMessages ==
    <<"El nombre del producto es obligatorio", "La categoria es obligatoria",
      "El precio de costo debe ser mayor a 0", "El precio de venta debe ser mayor a 0",
      "El precio de venta es menor al costo">>

RECURSIVE ErrorsFrom(_, _)
ErrorsFrom(k, d) ==
    IF k > Len(ValidationMessages) THEN << >>
    ELSE (IF Fires(k, d) THEN <<ValidationMessages[k]>> ELSE << >>)
             \o ErrorsFrom(k + 1, d)

C13_Step ==
    last'.op = "validateProduct" =>
        LET d == last'.args[1] IN
        /\ last'.ret.errors = ErrorsFrom(1, d)
        /\ last'.ret.isValid = (last'.ret.errors = << >>)
        /\ (d.name = Some("") /\ d.category = Some("") /\ d.cost = 0 /\ d.price = 0) =>
               (~last'.ret.isValid /\ Len(last'.ret.errors) = 4)
        /\ UNCHANGED <<localStorage, authVars, localVars, backVars>>

\* C13: validateProduct(data) collects, without stopping at the first, exactly
\* the errors whose condition holds, in the order name, category, cost, price,
\* price below cost; isValid is true exactly when there is none; the data
\* {name "", category "", cost 0, price 0} gives exactly 4 errors; no state changes.
C13_Validation == [][C13_Step]_vars

\* the all-empty form data has been validated
C13_Witness ==
    /\ last.op = "validateProduct"
    /\ last.args[1] = [name |-> Some(""), category |-> Some(""), cost |-> 0, price |-> 0]
    /\ Len(last.ret.errors) = 4
    /\ products # << >>

----------------------------------------------------------------------------
(* filterProducts *)

\* the search texts and category selections a page passes ("": none)
SearchTerms == {"", "tom", "QUESO", "e", "cherry tomate"}
CategoryFilters == {"", "Verduras", "Lacteos"}
RemoteCategoryFilters == {"", "1", "2"}

\* a faulty variant: a product matching either the text or the category is kept
filterProducts_Either(ps, searchTerm, categoryFilter) ==
    filter(ps, LAMBDA product :
        LET matchesSearch ==
                includes(toLowerCase(Chars[product.name]), toLowerCase(Chars[searchTerm]))
            matchesCategory ==
                categoryFilter = "" \/ product.category = categoryFilter
        IN  matchesSearch \/ matchesCategory)

\* local variant: filterProducts(searchTerm, categoryFilter)
filterProducts(ps, searchTerm, categoryFilter) ==
    filter(ps, LAMBDA product :
        LET matchesSearch ==
                includes(toLowerCase(Chars[product.name]), toLowerCase(Chars[searchTerm]))
            matchesCategory ==
                categoryFilter = "" \/ product.category = categoryFilter
        IN  matchesSearch /\ matchesCategory)

\* backend variant: filterProducts(searchTerm, categoryFilter); the cache is
\* always an array, so the guard on a missing cache never applies
remoteFilterProducts(ps, searchTerm, categoryFilter) ==
    filter(ps, LAMBDA product :
        LET matchesSearch ==
                includes(toLowerCase(Chars[product.name]), toLowerCase(Chars[searchTerm]))
            matchesCategory ==
                categoryFilter = "" \/ ToString(product.category_id) = categoryFilter
        IN  matchesSearch /\ matchesCategory)

FilterProducts(searchTerm, categoryFilter) ==
    /\ last' = [op |-> "filterProducts", args |-> <<searchTerm, categoryFilter>>,
                ret |-> filterProducts(products, searchTerm, categoryFilter)]
    /\ UNCHANGED <<localStorage, authVars, localVars, backVars>>

RemoteFilterProducts(searchTerm, categoryFilter) ==
    /\ calls = {}
    /\ last' = [op |-> "remoteFilterProducts", args |-> <<searchTerm, categoryFilter>>,
                ret |-> remoteFilterProducts(cache, searchTerm, categoryFilter)]
    /\ UNCHANGED <<localStorage, authVars, localVars, backVars>>

FilterNext ==
    \/ InitializeSampleData
    \/ \E d \in RemoteData :
           calls = {} /\ Request([kind |-> "addProduct", args |-> <<d>>])
    \/ \E c \in calls : RespondInsert(c)
    \/ \E c \in calls : Settle(c)
    \/ \E searchTerm \in SearchTerms, categoryFilter \in CategoryFilters :
           FilterProducts(searchTerm, categoryFilter)
    \/ \E searchTerm \in SearchTerms, categoryFilter \in RemoteCategoryFilters :
           RemoteFilterProducts(searchTerm, categoryFilter)

SpecFilter == Init /\ [][FilterNext]_vars

\* two characters that are the same letter, whatever their case
SameLetter(a, b) ==
    \/ a = b
    \/ \E k \in 1..Len(UpperCase) : {a, b} = {UpperCase[k], LowerCase[k]}

\* text name contains text term, case ignored
ContainsIgnoringCase(name, term) ==
    LET n == Chars[name]
        t == Chars[term]
    IN  \E k \in 0..(Len(n) - Len(t)) : \A j \in 1..Len(t) : SameLetter(n[k + j], t[j])

\* got is, in the order of ps, exactly the entries of ps at the positions in keep
IsSelection(got, ps, keep) ==
    /\ Len(got) = Cardinality(keep)
    /\ \A k \in 1..Len(got) :
           got[k] = ps[CHOOSE i \in keep : Cardinality({j \in keep : j < i}) = k - 1]

C14_Step ==
    /\ (last'.op = "filterProducts" /\ calls' = calls) =>
           /\ IsSelection(last'.ret, products,
                  { i \in 1..Len(products) :
                      /\ ContainsIgnoringCase(products[i].name, last'.args[1])
                      /\ last'.args[2] # "" => products[i].category = last'.args[2] })
           /\ products' = products /\ localStorage' = localStorage
    /\ (last'.op = "remoteFilterProducts" /\ calls' = calls) =>
           /\ IsSelection(last'.ret, cache,
                  { i \in 1..Len(cache) :
                      /\ ContainsIgnoringCase(cache[i].name, last'.args[1])
                      /\ last'.args[2] # "" =>
                             ToString(cache[i].category_id) = last'.args[2] })
           /\ cache' = cache /\ table' = table

\* C14: filterProducts(searchTerm, categoryFilter) returns, in collection
\* order, exactly the products whose name contains searchTerm ignoring case
\* and, when categoryFilter is not empty, whose category (backend: category_id
\* as a string) equals it; empty arguments match everything; the collection
\* is not modified.
C14_Filter == [][C14_Step]_vars

\* a search in another case together with a category kept some products and
\* dropped others
C14_Witness ==
    /\ last.op = "filterProducts"
    /\ last.args = <<"tom", "Verduras">>
    /\ Len(last.ret) = 1
    /\ last.ret[1].name = "Tomate Cherry"
    /\ Len(products) = 3

----------------------------------------------------------------------------
(* Statistics of the local product service.  A number with decimals is     *)
(* carried as a count of tenths; the text toFixed(1) writes is a sign, the *)
(* whole part and one decimal digit.  Arithmetic is exact: on the data of  *)
(* this model the IEEE double results of the code round the same way.      *)

Abs(n) == IF n < 0 THEN -n ELSE n

RECURSIVE Sum(_)
Sum(s) == IF s = << >> THEN 0 ELSE Head(s) + Sum(Tail(s))

\* a faulty variant: the decimals after the first are cut off
toFixed1_Truncate(num, den) ==
    LET tenths == (10 * Abs(num)) \div Abs(den)
    IN  [text |-> TRUE, neg |-> (num < 0) # (den < 0) /\ num # 0,
         whole |-> tenths \div 10, tenth |-> tenths % 10]

\* (num / den).toFixed(1): the nearest count of tenths, a half going away from zero
toFixed1(num, den) ==
    LET tenths == (20 * Abs(num) + Abs(den)) \div (2 * Abs(den))
    IN  [text |-> TRUE, neg |-> (num < 0) # (den < 0) /\ num # 0,
         whole |-> tenths \div 10, tenth |-> tenths % 10]

\* the number 0, as calculateMargin returns it for a cost of 0
Zero == [text |-> FALSE, neg |-> FALSE, whole |-> 0, tenth |-> 0]

\* parseFloat(x), in tenths
parseFloat(x) == (IF x.neg THEN -1 ELSE 1) * (10 * x.whole + x.tenth)

\* calculateMargin(cost, price)
calculateMargin(cost, price) ==
    IF cost = 0 THEN Zero ELSE toFixed1((price - cost) * 100, cost)

\* getCategories(): [...new Set(products.map(p => p.category))]
getCategories(ps) ==
    LET firsts == { i \in 1..Len(ps) : \A j \in 1..(i - 1) : ps[j].category # ps[i].category }
    IN  [k \in 1..Cardinality(firsts) |->
            ps[CHOOSE i \in firsts : Cardinality({j \in firsts : j < i}) = k - 1].category]

\* getStatistics()
getStatistics(ps) ==
    LET totalProducts == Len(ps)
        totalInventoryValue == Sum([i \in 1..Len(ps) |-> ps[i].cost * 1])
        marginSum ==
            Sum([i \in 1..Len(ps) |-> parseFloat(calculateMargin(ps[i].cost, ps[i].price))])
        uniqueCategories == Len(getCategories(ps))
    IN  [totalProducts |-> totalProducts,
         totalInventoryValue |-> totalInventoryValue,
         averageMargin |-> IF totalProducts > 0
                           THEN toFixed1(marginSum, 10 * totalProducts)
                           ELSE toFixed1(0, 1),
         uniqueCategories |-> uniqueCategories]

\* product data for the statistics: a product given away (cost 0) and one sold
\* at a loss besides the usual ones
StatsData ==
    ProductData
        \cup { [name |-> "Regalo", category |-> "Verduras", cost |-> 0, price |-> 100,
                description |-> Absent],
               [name |-> "Saldo", category |-> "Frutas", cost |-> 3000, price |-> 2000,
                description |-> Absent] }

StatsNext ==
    \/ \E d \in StatsData, t \in 0..MaxNow : AddProduct(d, t)
    \/ \E id \in IdArgs : DeleteProduct(id)
    \/ InitializeSampleData

SpecStats == Init /\ [][StatsNext]_vars

\* t tenths is the value num / den (den > 0) rounded to one decimal
NearestTenth(t, num, den) == 2 * Abs(t * den - 10 * num) <= den

\* the margin of product p rounded to one decimal, in tenths, as the service computes it
MarginOf(p) == parseFloat(calculateMargin(p.cost, p.price))

\* the parts of the statistics that are counts and sums, and the margin of each product
CountsAndMargins(ps) ==
    LET s == getStatistics(ps) IN
    /\ s.totalProducts = Len(ps)
    /\ s.totalInventoryValue = Sum([i \in 1..Len(ps) |-> ps[i].cost])
    /\ s.uniqueCategories = Cardinality({ ps[i].category : i \in 1..Len(ps) })
    /\ \A i \in 1..Len(ps) :
           IF ps[i].cost = 0 THEN MarginOf(ps[i]) = 0
           ELSE NearestTenth(MarginOf(ps[i]), 100 * (ps[i].price - ps[i].cost), ps[i].cost)
    /\ Len(ps) = 0 => parseFloat(s.averageMargin) = 0

\* C15 as stated: averageMargin is the mean of the rounded per-product margins
C15_ExactMean ==
    /\ CountsAndMargins(products)
    /\ Len(products) > 0 =>
           parseFloat(getStatistics(products).averageMargin) * Len(products)
               = Sum([i \in 1..Len(products) |-> MarginOf(products[i])])

C15_Step ==
    /\ CountsAndMargins(products')
    /\ Len(products') > 0 =>
           /\ getStatistics(products').averageMargin.text
           /\ NearestTenth(parseFloat(getStatistics(products').averageMargin),
                           Sum([i \in 1..Len(products') |-> MarginOf(products'[i])]),
                           10 * Len(products'))
    /\ (last'.op = "initializeSampleData" /\ products = << >>) =>
           /\ getStatistics(products').totalProducts = 3
           /\ getStatistics(products').totalInventoryValue = 12300
           /\ getStatistics(products').uniqueCategories = 3

\* C15 (amended): getStatistics() returns totalProducts = the collection
\* length, totalInventoryValue = the sum of the cost fields, uniqueCategories =
\* the number of distinct categories, and averageMargin = the text, with one
\* decimal, of the mean of the per-product margins each rounded to one decimal,
\* that mean being itself rounded to one decimal (0.0 without products, a
\* product of cost 0 counting 0); after initializeSampleData on an empty
\* collection: 3 products, inventory value 12300, 3 categories.
C15_Statistics == [][C15_Step]_vars

\* three products, one of them of cost 0, whose mean margin is not a whole
\* number of tenths
C15_Witness ==
    /\ Len(products) = 3
    /\ \E i \in 1..3 : products[i].cost = 0
    /\ Sum([i \in 1..3 |-> MarginOf(products[i])]) % 3 # 0
    /\ last.op = "addProduct"

----------------------------------------------------------------------------
(* The editing cursor of both product services *)

\* isEditing() and getEditingId(), of a cursor
isEditing(cursor) == cursor # Absent
getEditingId(cursor) == cursor

\* local variant: setEditingProduct(id)
SetEditingProduct(id) ==
    /\ editingId' = Some(id)
    /\ last' = [op |-> "setEditingProduct", args |-> <<id>>,
                ret |-> getProductById(products, id)]
    /\ UNCHANGED <<localStorage, authVars, products, now, rng, backVars>>

\* local variant: cancelEdit()
CancelEdit ==
    /\ editingId' = Absent
    /\ last' = [op |-> "cancelEdit", args |-> << >>, ret |-> Absent]
    /\ UNCHANGED <<localStorage, authVars, products, now, rng, backVars>>

\* +id: a number stays what it is, the decimal text of a number becomes that number
unaryPlus(id) == [t |-> "number", v |-> id.v]

\* backend variant: getProductById(id)
remoteGetProductById(ps, id) == find(ps, LAMBDA p : strictEquals(p.id, id))

\* a faulty variant: the identifier is stored as given
remoteSetEditing_AsGiven(ps, id) ==
    [cursor |-> Some(id), ret |-> remoteGetProductById(ps, unaryPlus(id))]

\* backend variant: setEditingProduct(id)
remoteSetEditing(ps, id) ==
    [cursor |-> Some(unaryPlus(id)),
     ret |-> remoteGetProductById(ps, unaryPlus(id))]

RemoteSetEditingProduct(id) ==
    /\ LET out == remoteSetEditing(cache, id)
       IN  /\ remoteEditingId' = out.cursor
           /\ last' = [op |-> "remoteSetEditingProduct", args |-> <<id>>, ret |-> out.ret]
    /\ UNCHANGED <<localStorage, authVars, localVars, table, nextId, cache, calls, synced>>

\* backend variant: cancelEdit()
RemoteCancelEdit ==
    /\ remoteEditingId' = Absent
    /\ last' = [op |-> "remoteCancelEdit", args |-> << >>, ret |-> Absent]
    /\ UNCHANGED <<localStorage, authVars, localVars, table, nextId, cache, calls, synced>>

\* a page works with one of the two product services: the other one is as
\* it was constructed
LocalUnused ==
    /\ products = << >> /\ editingId = Absent /\ now = 0 /\ rng = 0
    /\ getItem(localStorage, ProductsKey) = Absent
RemoteUnused ==
    /\ table = {} /\ nextId = 1 /\ cache = << >> /\ remoteEditingId = Absent
    /\ calls = {} /\ ~synced

\* the product data of the pages that edit
EditData == { d \in ProductData : d.name = "Tomate" }
RemoteEditData == { d \in RemoteData : d.name = "Queso" }

\* the identifiers the editing pages pass: those on display, the one under
\* edit, and one that matches nothing
EditIdArgs ==
    { products[i].id : i \in 1..Len(products) }
        \cup (IF editingId # Absent THEN {editingId[1]} ELSE {})
        \cup { "desconocido" }

RemoteEditCalls ==
    { c \in RemoteCalls :
        /\ c.kind # "loadCategories"
        /\ c.kind \in {"addProduct", "updateProduct"} => c.args[Len(c.args)] \in RemoteEditData }

CursorNext ==
    \/ /\ RemoteUnused
       /\ \/ Construct
          \/ \E d \in EditData, t \in 0..MaxNow : AddProduct(d, t)
          \/ \E id \in EditIdArgs, d \in EditData : UpdateProduct(id, d)
          \/ \E id \in EditIdArgs : DeleteProduct(id)
          \/ InitializeSampleData
          \/ \E id \in EditIdArgs : SetEditingProduct(id)
          \/ CancelEdit
    \/ /\ LocalUnused
       /\ \/ \E request \in RemoteEditCalls : calls = {} /\ Request(request)
          \/ \E c \in calls : RespondSelect(c)
          \/ \E c \in calls : RespondInsert(c)
          \/ \E c \in calls : RespondUpdate(c)
          \/ \E c \in calls : RespondDelete(c)
          \/ \E c \in calls : RespondError(c)
          \/ \E c \in calls : Settle(c)
          \/ \E id \in RemoteIdArgs : RemoteSetEditingProduct(id)
          \/ RemoteCancelEdit

SpecCursor == Init /\ [][CursorNext]_vars

\* what C16 says of the local cursor, of cancelEdit in both variants, and of
\* the operations that leave the cursor alone
C16_Common ==
    /\ last.op = "none" => (~isEditing(editingId) /\ ~isEditing(remoteEditingId))
    /\ last'.op = "construct" => ~isEditing(editingId')
    /\ last'.op = "setEditingProduct" =>
           /\ isEditing(editingId')
           /\ getEditingId(editingId') = Some(last'.args[1])
    /\ last'.op = "cancelEdit" =>
           (~isEditing(editingId') /\ getEditingId(editingId') = Absent)
    /\ last'.op = "remoteCancelEdit" =>
           (~isEditing(remoteEditingId') /\ getEditingId(remoteEditingId') = Absent)
    /\ editingId' # editingId =>
           last'.op \in {"setEditingProduct", "cancelEdit", "construct"}
    /\ remoteEditingId' # remoteEditingId =>
           last'.op \in {"remoteSetEditingProduct", "remoteCancelEdit"}

\* C16 as stated: in the backend variant too getEditingId() returns the
\* identifier setEditingProduct was given
C16_AsGiven ==
    [][/\ C16_Common
       /\ last'.op = "remoteSetEditingProduct" =>
              /\ isEditing(remoteEditingId')
              /\ getEditingId(remoteEditingId') = Some(last'.args[1])]_vars

\* C16 (amended): the cursor is absent at construction; setEditingProduct(id)
\* makes it hold that identifier (in the backend variant the number +id that
\* the identifier denotes), replacing any earlier one, after which isEditing()
\* is true and getEditingId() returns it; cancelEdit() resets it to absent,
\* after which isEditing() is false; no other operation changes the cursor.
C16_Cursor ==
    [][/\ C16_Common
       /\ last'.op = "remoteSetEditingProduct" =>
              /\ isEditing(remoteEditingId')
              /\ getEditingId(remoteEditingId')[1].t = "number"
              /\ getEditingId(remoteEditingId')[1].v = last'.args[1].v]_vars

\* setEditingProduct was given the text of the identifier of one of two cached rows
C16_Witness ==
    /\ last.op = "remoteSetEditingProduct"
    /\ last.args[1].t = "string"
    /\ last.ret # Absent
    /\ remoteEditingId = Some(last.ret[1].id)
    /\ Len(cache) = 2

\* C20: whenever isEditing() is true, getEditingId() is the identifier of a
\* product currently in the collection (local variant) or cache (backend
\* variant), so that getProductById(getEditingId()) is not absent.
C20_NoDanglingCursor ==
    /\ isEditing(editingId) =>
           getProductById(products, getEditingId(editingId)[1]) # Absent
    /\ isEditing(remoteEditingId) =>
           remoteGetProductById(cache, getEditingId(remoteEditingId)[1]) # Absent

----------------------------------------------------------------------------
(* Backend calls that overlap: a service method is called while earlier     *)
(* calls are still awaiting their response; the backend serves the requests *)
(* and the responses resolve in any order.  Two calls in flight with the    *)
(* same arguments and in the same phase are one element of calls, so the    *)
(* overlapping calls of the model differ in their arguments or progress.    *)

OverlapAddNext ==
    \/ \E d \in RemoteData :
           /\ Cardinality(calls) < MaxCalls
           /\ Request([kind |-> "addProduct", args |-> <<d>>])
    \/ \E c \in calls : RespondInsert(c)
    \/ \E c \in calls : RespondError(c)
    \/ \E c \in calls : Settle(c)

SpecOverlapAdd == Init /\ [][OverlapAddNext]_vars

\* the calls of the pages that load while they write: identifiers are numbers
OverlapCalls ==
    { c \in RemoteCalls :
        /\ c.kind # "loadCategories"
        /\ c.kind \in {"updateProduct", "deleteProduct"} => c.args[1].t = "number"
        /\ c.kind = "updateProduct" => c.args[2] \in RemoteEditData }

\* a write is in flight
Writing == \E c \in calls : c.kind # "loadProducts"

\* loadProducts may be called at any time; a write is called when no other
\* write is in flight
OverlapNext ==
    \/ \E request \in OverlapCalls :
           /\ Cardinality(calls) < MaxCalls
           /\ request.kind # "loadProducts" => ~Writing
           /\ Request(request)
    \/ \E c \in calls : RespondSelect(c)
    \/ \E c \in calls : RespondInsert(c)
    \/ \E c \in calls : RespondUpdate(c)
    \/ \E c \in calls : RespondDelete(c)
    \/ \E c \in calls : Settle(c)

SpecOverlap == Init /\ [][OverlapNext]_vars

\* the response of a successful addProduct resolves
C17_Step ==
    \A c \in calls :
        (/\ c.phase = "answered"
         /\ c.kind = "addProduct"
         /\ ~c.error
         /\ calls' = calls \ {c}
         /\ Settle(c)) =>
            /\ cache' = <<c.data[1]>> \o cache
            /\ calls' = {} =>
                   /\ cached' = table'
                   /\ Len(cache') = Cardinality(table')

\* C17: addProduct calls in flight at the same time, all succeeding: whatever
\* the order in which the responses resolve, the row of a response is placed
\* before the rows of the responses that resolved earlier, and once all have
\* resolved the cache holds each created row exactly once.
C17_OverlappingAdds == [][C17_Step]_vars

\* the row created first is in front: its response resolved after that of the
\* row created second, so the two calls were in flight together
C17_Witness ==
    /\ calls = {}
    /\ Len(cache) = 2
    /\ cache[1].id = Num(1)
    /\ cache[2].id = Num(2)
    /\ last.op = "addProduct"

\* C18: loadProducts in flight at the same time as an addProduct, updateProduct
\* or deleteProduct call, all succeeding: whatever the order in which the
\* backend serves the requests and the responses resolve, once all calls have
\* settled the cache holds exactly the rows of the backend products table.
C18_LoadOverlappingWrite ==
    (synced /\ calls = {}) =>
        /\ { cache[i] : i \in 1..Len(cache) } = table
        /\ Len(cache) = Cardinality(table)

----------------------------------------------------------------------------
(* logout() while login calls are in their delay.  No login is called from  *)
(* a logout until the next call resumes, so a call resuming when logout was *)
(* the latest operation to run had been called before that logout.          *)

LogoutRaceNext ==
    \/ \E u \in Usernames, p \in Passwords : last.op # "logout" /\ LoginCall(u, p)
    \/ \E call \in pending : LoginResume(call)
    \/ Logout

SpecLogoutRace == Init /\ [][LogoutRaceNext]_vars

\* a login call that was in its delay when logout() ran resumes
C19_Step ==
    (/\ last.op = "logout"
     /\ \E call \in pending : pending' = pending \ {call}) =>
        ~isAuthenticated(localStorage')

\* C19: once logout() has run isAuthenticated() stays false until a login
\* called after that logout resolves successfully: a login called before the
\* logout and resuming after it does not establish a session.
C19_LogoutWins == [][C19_Step]_vars

=============================================================================
